---- MODULE Spec2Model ----
(***************************************************************************)
(* Users / roles / JWT authentication flow of the NestJs-app tutorial      *)
(* backend: registration, login, role assignment, ban, JwtAuthGuard and    *)
(* RolesGuard.  The listings live in src/README.md.                        *)
(***************************************************************************)
EXTENDS Integers, Sequences, FiniteSets, TLC

(* ------------------------------ bounds -------------------------------- *)
MaxUsers == 2
MaxRequests == 2
MaxTime == 36
TickStep == 12

(* -------------------------- program constants ------------------------- *)
\* signOptions.expiresIn: '24h', counted in hours
ExpiresIn == 24
\* bcrypt.hash(password, 5)
HashCost == 5

Secret == "SECRET"
Emails == {"a@x.com", "b@x.com"}
Passwords == {"pass1", "pass2"}
Salts == {"s1", "s2"}
RoleValues == {"USER", "ADMIN"}
BanReasons == {"spam", "other"}
ClientEmail == "a@x.com"
ClientPassword == "pass1"
UserIds == 1..(MaxUsers + 1)

\* a request body as CreateUserDto declares it
CreateUserDto(email, password) == [email |-> email, password |-> password]

\* the bodies a client can send: no pipe strips or rejects the properties that
\* CreateUserDto does not declare, so the body may carry other columns of the row
Bodies(email, password) ==
    {CreateUserDto(email, password),
     CreateUserDto(email, password) @@ [banReason |-> "x"],
     CreateUserDto(email, password) @@ [banned |-> TRUE, banReason |-> "x", id |-> 1]}

VARIABLES users, nextUserId, roles, nextRoleId, userRoles, held, now, last, reqs

vars == <<users, nextUserId, roles, nextRoleId, userRoles, held, now, last, reqs>>
store == <<users, nextUserId, roles, nextRoleId, userRoles>>

(* ------------------------------ bcryptjs ------------------------------ *)
\* bcrypt.hash: a string that carries the cost, the salt and the digest
bcryptHash(password, cost, salt) ==
    "$2a$" \o (IF cost < 10 THEN "0" ELSE "") \o ToString(cost) \o "$" \o salt \o "#" \o password

\* bcrypt.compare hashes the password again with the salt and the cost read from
\* the stored string; a stored string that is not a hash matches nothing
bcryptCompare(password, hash) ==
    \E salt \in Salts : hash = bcryptHash(password, HashCost, salt)

(* ------------------------- models and repository --------------------- *)
\* the users table row built from the values handed to create: id comes from
\* the sequence, banned defaults to false and banReason to null ({}) when the
\* values do not give them
User(dto) ==
    [id |-> IF "id" \in DOMAIN dto THEN dto.id ELSE nextUserId,
     email |-> dto.email,
     password |-> dto.password,
     banned |-> IF "banned" \in DOMAIN dto THEN dto.banned ELSE FALSE,
     banReason |-> IF "banReason" \in DOMAIN dto THEN {dto.banReason} ELSE {}]

\* roles table row
Role(id, value) ==
    [id |-> id, value |-> value, description |-> value]

\* the roles a user row is linked to through the user-roles table
RolesOf(userId) ==
    {r \in roles : <<userId, r.id>> \in userRoles}

\* a user instance loaded with its associations (include: {all: true})
WithRoles(u) ==
    [id |-> u.id, email |-> u.email, password |-> u.password, banned |-> u.banned,
     banReason |-> u.banReason, roles |-> RolesOf(u.id)]

findByPk(userId) ==
    {u \in users : u.id = userId}

getUserByEmail(email) ==
    {WithRoles(u) : u \in {x \in users : x.email = email}}

getRoleByValue(value) ==
    {r \in roles : r.value = value}

\* create that builds the instance and takes its id but does not write the row
create_Build(dto) ==
    [users |-> users,
     nextUserId |-> IF "id" \in DOMAIN dto THEN nextUserId ELSE nextUserId + 1,
     user |-> {User(dto)}]

\* userRepository.create(dto): INSERT of the row built from every attribute of
\* dto; the primary key and the unique constraint on email refuse a second row
\* (user is {} then, the call throws).  An id taken from the sequence is used
\* up even when the INSERT is refused (the dialect is postgres); a given id
\* leaves the sequence alone
create(dto) ==
    [users |-> IF \E u \in users : u.email = dto.email \/ u.id = User(dto).id
               THEN users ELSE users \cup {User(dto)},
     nextUserId |-> IF "id" \in DOMAIN dto THEN nextUserId ELSE nextUserId + 1,
     user |-> IF \E u \in users : u.email = dto.email \/ u.id = User(dto).id
              THEN {} ELSE {User(dto)}]

\* user.$set('roles', [role.id]): the links of the user are replaced by the
\* one to this role
set(user, role) ==
    {l \in userRoles : \A u \in user : l[1] # u.id}
        \cup {<<u.id, r.id>> : u \in user, r \in role}

\* $add that replaces the links of the user, as $set does
add_Replace(user, role) ==
    {l \in userRoles : \A u \in user : l[1] # u.id}
        \cup {<<u.id, r.id>> : u \in user, r \in role}

\* user.$add('role', role.id) links one more role and keeps the others
add(user, role) ==
    userRoles \cup {<<u.id, r.id>> : u \in user, r \in role}

\* user.save(): UPDATE, in the row with that id, of the fields whose value the
\* assignments have changed on the instance; the other fields of the row are
\* left as they are, and nothing is written when no field has changed
save(user, changed) ==
    {IF \E x \in user : x.id = u.id
     THEN LET x == CHOOSE y \in user : y.id = u.id
          IN  [u EXCEPT !.banned = IF "banned" \in changed THEN x.banned ELSE @,
                        !.banReason = IF "banReason" \in changed THEN x.banReason ELSE @]
     ELSE u : u \in users}

(* ------------------------------ headers ------------------------------ *)
\* An Authorization header value is a string; it is modelled as a sequence of
\* atoms: a run of non-space characters, a single space, or a whole JWT.
Txt(s) == [k |-> "txt", s |-> s]
Sp == [k |-> "sp"]
Jwt(t) == [k |-> "jwt", t |-> t]

\* String.prototype.split(' ')
RECURSIVE split(_)
split(str) ==
    IF \A i \in 1..Len(str) : str[i] # Sp THEN <<str>>
    ELSE LET i == CHOOSE j \in 1..Len(str) :
                      str[j] = Sp /\ \A m \in 1..(j - 1) : str[m] # Sp
         IN  <<SubSeq(str, 1, i - 1)>> \o split(SubSeq(str, i + 1, Len(str)))

(* ------------------------------ JwtService ---------------------------- *)
\* jwtService.sign: the payload is serialised as JSON (a key whose value is
\* undefined is dropped), stamped with iat and exp = iat + expiresIn, and signed.
sign(payload) ==
    [payload |-> payload, iat |-> now, exp |-> now + ExpiresIn, sig |-> Secret]

\* verify that still accepts a token at the instant it expires
verifyError_LateExpiry(token) ==
    IF Len(token) # 1 \/ token[1].k # "jwt" THEN {"jwt malformed"}
    ELSE IF token[1].t.sig # Secret THEN {"invalid signature"}
    ELSE IF now > token[1].t.exp THEN {"jwt expired"}
    ELSE {}

\* jwtService.verify: throws on a malformed token, a bad signature or an expired token
verifyError(token) ==
    IF Len(token) # 1 \/ token[1].k # "jwt" THEN {"jwt malformed"}
    ELSE IF token[1].t.sig # Secret THEN {"invalid signature"}
    ELSE IF now >= token[1].t.exp THEN {"jwt expired"}
    ELSE {}

\* the decoded claims: the payload with iat and exp
verify(token) ==
    IF verifyError(token) # {} THEN {}
    ELSE {token[1].t.payload @@ [iat |-> token[1].t.iat, exp |-> token[1].t.exp]}

(* ------------------------------ responses ----------------------------- *)
Ok(body) == [ok |-> TRUE, status |-> 200, message |-> "", token |-> body]
HttpException(message, status) == [ok |-> FALSE, status |-> status, message |-> message, token |-> {}]
InternalServerError == HttpException("Internal server error", 500)

(* ------------------------------ AuthService --------------------------- *)
\* user.roles is undefined on an instance that was not loaded with its associations
generateToken(user) ==
    LET payload == IF "roles" \in DOMAIN user
                   THEN [email |-> user.email, id |-> user.id, roles |-> user.roles]
                   ELSE [email |-> user.email, id |-> user.id]
    IN  {sign(payload)}

\* {...userDto, password: hashPassword}
Spread(userDto, hashPassword) ==
    [f \in DOMAIN userDto \cup {"password"} |->
        IF f = "password" THEN hashPassword ELSE userDto[f]]

\* registration without the lookup of an existing user
registration_NoCandidateCheck(userDto) ==
    {}

\* AuthService.registration after getUserByEmail: the exception it throws when
\* the email is taken, {} when it goes on to bcrypt.hash
registration(userDto) ==
    LET candidate == getUserByEmail(userDto.email)
    IN  IF candidate # {}
        THEN {HttpException("User with such email already exists", 400)}
        ELSE {}

\* AuthService.login: the user is looked up by email and the password compared
\* with the stored hash; both failures raise the same error.
InvalidCredentials == HttpException("InvalidCredentials", 401)

\* login that tells an unknown email from a wrong password
login_Enumerable(userDto) ==
    LET found == getUserByEmail(userDto.email)
    IN  IF found = {} THEN HttpException("User not found", 404)
        ELSE LET user == CHOOSE u \in found : TRUE
             IN  IF bcryptCompare(userDto.password, user.password)
                 THEN Ok(generateToken(user))
                 ELSE InvalidCredentials

login(userDto) ==
    LET found == getUserByEmail(userDto.email)
    IN  IF found = {} THEN InvalidCredentials
        ELSE LET user == CHOOSE u \in found : TRUE
             IN  IF bcryptCompare(userDto.password, user.password)
                 THEN Ok(generateToken(user))
                 ELSE InvalidCredentials

(* ------------------------------ UsersService -------------------------- *)
\* UsersService.createUser after getRoleByValue("USER"): the TypeError that
\* role.id throws on null while the argument of $set is built (answered as a
\* 500), {} when it goes on to $set
createUser(role) ==
    IF role = {} THEN {InternalServerError} ELSE {}

\* addRole that only checks that the role exists
addRole_NoUserCheck(user, role) ==
    IF role # {} THEN {} ELSE {HttpException("Users or role not found", 404)}

\* UsersService.addRole after its two lookups: {} when it goes on to $add, the
\* exception it throws otherwise
addRole(user, role) ==
    IF role # {} /\ user # {} THEN {}
    ELSE {HttpException("Users or role not found", 404)}

\* the message of ban's 404, 'Пользователь не найден', with the characters
\* outside ASCII written as \uXXXX escapes
UserNotFound == "\\u041f\\u043e\\u043b\\u044c\\u0437\\u043e\\u0432\\u0430\\u0442\\u0435\\u043b\\u044c \\u043d\\u0435 \\u043d\\u0430\\u0439\\u0434\\u0435\\u043d"

\* ban that stores the reason but forgets user.banned = true
ban_ReasonOnly(dto, user) ==
    IF user = {}
    THEN [threw |-> {HttpException(UserNotFound, 404)}, user |-> {}, changed |-> {}]
    ELSE [threw |-> {},
          user |-> {[u EXCEPT !.banReason = {dto.banReason}] : u \in user},
          changed |-> {"banReason" : u \in {x \in user : x.banReason # {dto.banReason}}}]

\* UsersService.ban after findByPk: the exception it throws, or the instance
\* with banned and banReason assigned that it goes on to save, and the fields
\* the assignments have changed (an assignment of the value the instance
\* already has changes nothing)
ban(dto, user) ==
    IF user = {}
    THEN [threw |-> {HttpException(UserNotFound, 404)}, user |-> {}, changed |-> {}]
    ELSE [threw |-> {},
          user |-> {[u EXCEPT !.banned = TRUE, !.banReason = {dto.banReason}] : u \in user},
          changed |-> {"banned" : u \in {x \in user : ~x.banned}}
                        \cup {"banReason" : u \in {x \in user : x.banReason # {dto.banReason}}}]

(* ------------------------------ guards -------------------------------- *)
\* a request: authorization is {} when the header is absent, {value} otherwise
Request(authorization) == [authorization |-> authorization]

Allow(user) == [allowed |-> TRUE, status |-> 200, message |-> "", user |-> user]
\* a refusal; user is what the guard had assigned to req.user by then
Deny(status, message, user) ==
    [allowed |-> FALSE, status |-> status, message |-> message, user |-> user]
UnauthorizedException == Deny(401, "User not authed", {})
\* what the framework answers when a guard returns false
ForbiddenResource(user) == Deny(403, "Forbidden resource", user)

\* const [bearer, token] = authHeader.split(' '); authHeader.split throws on undefined
HeaderThrows(req) == req.authorization = {}
Parts(req) == split(CHOOSE h \in req.authorization : TRUE)
Bearer(req) == Parts(req)[1]
\* token is undefined (modelled as the empty string, equally falsy) when nothing follows
Token(req) == IF Len(Parts(req)) >= 2 THEN Parts(req)[2] ELSE <<>>

\* the three ways the try block of either guard throws before it has the claims
ExtractThrows(req) ==
    \/ HeaderThrows(req)
    \/ Bearer(req) # <<Txt("Bearer")>> \/ Token(req) = <<>>
    \/ verify(Token(req)) = {}

\* a guard that does not look at the scheme in front of the token
JwtAuthGuard_canActivate_AnyScheme(req) ==
    IF HeaderThrows(req) \/ Token(req) = <<>> \/ verify(Token(req)) = {}
    THEN UnauthorizedException
    ELSE Allow(verify(Token(req)))

\* a guard that also turns away the tokens of banned users
JwtAuthGuard_canActivate_ChecksBan(req) ==
    IF ExtractThrows(req) THEN UnauthorizedException
    ELSE IF \E c \in verify(Token(req)) : \E u \in users : u.id = c.id /\ u.banned
         THEN UnauthorizedException
         ELSE Allow(verify(Token(req)))

JwtAuthGuard_canActivate(req) ==
    IF ExtractThrows(req) THEN UnauthorizedException
    ELSE Allow(verify(Token(req)))

\* SetMetadata(ROLES_KEY, roles): the metadata the reflector reads back; {} is
\* an endpoint without the decorator (getAllAndOverride gives undefined)
Roles(list) == {list}

includes(list, value) == \E i \in 1..Len(list) : list[i] = value

\* a role guard that wants every role of the token to be a required one
RolesGuard_canActivate_Every(req, metadata) ==
    IF metadata = {} THEN Allow({})
    ELSE LET requiredRoles == CHOOSE l \in metadata : TRUE
         IN  IF ExtractThrows(req) THEN Deny(403, "User has no access", {})
             ELSE LET user == CHOOSE c \in verify(Token(req)) : TRUE
                  IN  IF "roles" \notin DOMAIN user
                      THEN Deny(403, "User has no access", {user})
                      ELSE IF \A role \in user.roles : includes(requiredRoles, role.value)
                           THEN Allow({user})
                           ELSE ForbiddenResource({user})

\* a role guard whose catch lets the UnauthorizedException through
RolesGuard_canActivate_Rethrows(req, metadata) ==
    IF metadata = {} THEN Allow({})
    ELSE LET requiredRoles == CHOOSE l \in metadata : TRUE
         IN  IF ExtractThrows(req) THEN UnauthorizedException
             ELSE LET user == CHOOSE c \in verify(Token(req)) : TRUE
                  IN  IF "roles" \notin DOMAIN user
                      THEN Deny(403, "User has no access", {user})
                      ELSE IF \E role \in user.roles : includes(requiredRoles, role.value)
                           THEN Allow({user})
                           ELSE ForbiddenResource({user})

\* RolesGuard.canActivate: req.user is assigned as soon as verify has returned,
\* before the roles are tested, so a refusal after that point leaves the claims
\* on the request
RolesGuard_canActivate(req, metadata) ==
    IF metadata = {} THEN Allow({})
    ELSE LET requiredRoles == CHOOSE l \in metadata : TRUE
         IN  IF ExtractThrows(req) THEN Deny(403, "User has no access", {})
             ELSE LET user == CHOOSE c \in verify(Token(req)) : TRUE
                  IN  IF "roles" \notin DOMAIN user
                      THEN Deny(403, "User has no access", {user})
                      ELSE IF \E role \in user.roles : includes(requiredRoles, role.value)
                           THEN Allow({user})
                           ELSE ForbiddenResource({user})

(* ------------------------------ actions ------------------------------- *)
\* the requests in flight: a handler that awaits the database more than once is
\* served one await at a time, and reqs[i] is what request i has in its locals
Conns == 1..MaxRequests
Idle == [pc |-> "idle"]
\* no handler has answered in this step
Await == [op |-> "await"]

Init ==
    /\ users = {}
    /\ nextUserId = 1
    /\ roles = {}
    /\ nextRoleId = 1
    /\ userRoles = {}
    /\ held = {}
    /\ now = 0
    /\ last = [op |-> "start"]
    /\ reqs = [i \in Conns |-> Idle]

\* RolesService.createRole
CreateRole(value) ==
    /\ getRoleByValue(value) = {}
    /\ roles' = roles \cup {Role(nextRoleId, value)}
    /\ nextRoleId' = nextRoleId + 1
    /\ last' = [op |-> "createRole", req |-> [value |-> value], resp |-> Ok({})]
    /\ UNCHANGED <<users, nextUserId, userRoles, held, now, reqs>>

\* the sequence of user ids is followed up to MaxUsers: a request that will
\* take an id from it is accepted while one is left for it
Pending ==
    {i \in Conns : reqs[i].pc \in {"hash", "create"} /\ "id" \notin DOMAIN reqs[i].req}
SequenceLeft(userDto) ==
    "id" \in DOMAIN userDto \/ nextUserId + Cardinality(Pending) <= MaxUsers

\* POST /auth/registration: await this.userService.getUserByEmail and the throw
RegLookup(i, userDto) ==
    LET threw == registration(userDto)
    IN  /\ reqs[i].pc = "idle"
        /\ IF threw # {}
           THEN /\ last' = [op |-> "registration", req |-> userDto, user |-> {},
                            resp |-> CHOOSE e \in threw : TRUE]
                /\ UNCHANGED reqs
           ELSE /\ SequenceLeft(userDto)
                /\ reqs' = [reqs EXCEPT ![i] =
                       [op |-> "registration", pc |-> "hash", req |-> userDto]]
                /\ last' = Await
        /\ UNCHANGED <<store, held, now>>

\* registration: await bcrypt.hash(userDto.password, 5) and the object handed
\* to createUser
RegHash(i, salt) ==
    LET q == reqs[i]
    IN  /\ q.pc = "hash"
        /\ reqs' = [reqs EXCEPT ![i] =
               [op |-> q.op, pc |-> "create", req |-> q.req,
                dto |-> Spread(q.req, bcryptHash(q.req.password, HashCost, salt))]]
        /\ last' = Await
        /\ UNCHANGED <<store, held, now>>

\* createUser: await this.userRepository.create(dto); the error of a refused
\* INSERT is not caught anywhere
RegCreate(i) ==
    LET q == reqs[i]
        c == create(q.dto)
    IN  /\ q.pc = "create"
        /\ users' = c.users
        /\ nextUserId' = c.nextUserId
        /\ IF c.user = {}
           THEN /\ reqs' = [reqs EXCEPT ![i] = Idle]
                /\ last' = [op |-> q.op, req |-> q.req, user |-> {},
                            resp |-> InternalServerError]
           ELSE /\ reqs' = [reqs EXCEPT ![i] =
                       [op |-> q.op, pc |-> "role", req |-> q.req, user |-> c.user]]
                /\ last' = Await
        /\ UNCHANGED <<roles, nextRoleId, userRoles, held, now>>

\* POST /users: UsersController.create hands the body to createUser as it is
UsersCreate(i, userDto) ==
    LET c == create(userDto)
    IN  /\ reqs[i].pc = "idle"
        /\ SequenceLeft(userDto)
        /\ users' = c.users
        /\ nextUserId' = c.nextUserId
        /\ IF c.user = {}
           THEN /\ last' = [op |-> "createUser", req |-> userDto, user |-> {},
                            resp |-> InternalServerError]
                /\ UNCHANGED reqs
           ELSE /\ reqs' = [reqs EXCEPT ![i] =
                       [op |-> "createUser", pc |-> "role", req |-> userDto, user |-> c.user]]
                /\ last' = Await
        /\ UNCHANGED <<roles, nextRoleId, userRoles, held, now>>

\* createUser: await this.roleService.getRoleByValue("USER"), and role.id read
\* for the argument of $set: on null it throws here, before $set is called
CreateUserRole(i) ==
    LET q == reqs[i]
        role == getRoleByValue("USER")
        threw == createUser(role)
    IN  /\ q.pc = "role" /\ q.op \in {"registration", "createUser"}
        /\ IF threw # {}
           THEN /\ reqs' = [reqs EXCEPT ![i] = Idle]
                /\ last' = [op |-> q.op, req |-> q.req, user |-> q.user,
                            resp |-> CHOOSE e \in threw : TRUE]
           ELSE /\ reqs' = [reqs EXCEPT ![i] =
                       [op |-> q.op, pc |-> "set", req |-> q.req, user |-> q.user,
                        role |-> role]]
                /\ last' = Await
        /\ UNCHANGED <<store, held, now>>

\* createUser: await user.$set('roles', [role.id]) and return user; registration
\* answers generateToken(user), POST /users the user
CreateUserSet(i) ==
    LET q == reqs[i]
    IN  /\ q.pc = "set"
        /\ userRoles' = set(q.user, q.role)
        /\ reqs' = [reqs EXCEPT ![i] = Idle]
        /\ last' = [op |-> q.op, req |-> q.req, user |-> q.user,
                    resp |-> IF q.op = "registration"
                             THEN Ok(UNION {generateToken(u) : u \in q.user})
                             ELSE Ok({})]
        /\ UNCHANGED <<users, nextUserId, roles, nextRoleId, held, now>>

Login(email, password) ==
    LET userDto == [email |-> email, password |-> password]
        resp == login(userDto)
    IN  /\ last' = [op |-> "login", req |-> userDto, resp |-> resp]
        /\ UNCHANGED <<store, held, now, reqs>>

\* addRole: await this.userRepository.findByPk(dto.userId)
AddRoleFind(i, userId, value) ==
    /\ reqs[i].pc = "idle"
    /\ reqs' = [reqs EXCEPT ![i] =
            [op |-> "addRole", pc |-> "role",
             req |-> [userId |-> userId, value |-> value], user |-> findByPk(userId)]]
    /\ last' = Await
    /\ UNCHANGED <<store, held, now>>

\* addRole: await this.roleService.getRoleByValue(dto.value), the test and the throw
AddRoleRole(i) ==
    LET q == reqs[i]
        role == getRoleByValue(q.req.value)
        threw == addRole(q.user, role)
    IN  /\ q.pc = "role" /\ q.op = "addRole"
        /\ IF threw # {}
           THEN /\ reqs' = [reqs EXCEPT ![i] = Idle]
                /\ last' = [op |-> "addRole", req |-> q.req,
                            resp |-> CHOOSE e \in threw : TRUE]
           ELSE /\ reqs' = [reqs EXCEPT ![i] =
                       [op |-> "addRole", pc |-> "add", req |-> q.req, user |-> q.user,
                        role |-> role]]
                /\ last' = Await
        /\ UNCHANGED <<store, held, now>>

\* addRole: await user.$add('role', role.id) and return dto
AddRoleAdd(i) ==
    LET q == reqs[i]
    IN  /\ q.pc = "add"
        /\ userRoles' = add(q.user, q.role)
        /\ reqs' = [reqs EXCEPT ![i] = Idle]
        /\ last' = [op |-> "addRole", req |-> q.req, resp |-> Ok({})]
        /\ UNCHANGED <<users, nextUserId, roles, nextRoleId, held, now>>

\* ban: await this.userRepository.findByPk(dto.userId), the throw, the assignments
BanFind(i, userId, banReason) ==
    LET dto == [userId |-> userId, banReason |-> banReason]
        b == ban(dto, findByPk(userId))
    IN  /\ reqs[i].pc = "idle"
        /\ IF b.threw # {}
           THEN /\ last' = [op |-> "ban", req |-> dto, resp |-> CHOOSE e \in b.threw : TRUE]
                /\ UNCHANGED reqs
           ELSE /\ reqs' = [reqs EXCEPT ![i] =
                       [op |-> "ban", pc |-> "save", req |-> dto, user |-> b.user,
                        changed |-> b.changed]]
                /\ last' = Await
        /\ UNCHANGED <<store, held, now>>

\* ban: await user.save() and return user
BanSave(i) ==
    LET q == reqs[i]
    IN  /\ q.pc = "save"
        /\ users' = save(q.user, q.changed)
        /\ reqs' = [reqs EXCEPT ![i] = Idle]
        /\ last' = [op |-> "ban", req |-> q.req, resp |-> Ok({})]
        /\ UNCHANGED <<nextUserId, roles, nextRoleId, userRoles, held, now>>

\* the client keeps the token of the response it has just received
Hold ==
    /\ last.op \in {"registration", "login"}
    /\ last.resp.token # {}
    /\ held' = last.resp.token
    /\ last' = [op |-> "hold"]
    /\ UNCHANGED <<store, now, reqs>>

\* tokens a client can present: the one it holds, and the same re-signed with a
\* key that is not the server's
Forged(t) == [t EXCEPT !.sig = "OTHER"]

Headers ==
    {<<Txt("Basic"), Sp, Txt("xyz")>>, <<Txt("Bearer")>>, <<Txt("Bearer"), Sp>>,
     <<Txt("Bearer"), Sp, Txt("xyz")>>}
        \cup {<<Txt("Bearer"), Sp, Jwt(t)>> : t \in held}
        \cup {<<Txt("Bearer"), Sp, Jwt(Forged(t))>> : t \in held}
        \cup {<<Txt("Basic"), Sp, Jwt(t)>> : t \in held}

Requests == {Request({})} \cup {Request({h}) : h \in Headers}

\* the role requirements an endpoint can declare
Metadata == {{}, Roles(<<>>), Roles(<<"ADMIN">>), Roles(<<"USER", "ADMIN">>)}

\* a request to an endpoint behind @UseGuards(JwtAuthGuard)
AuthRequest(req) ==
    /\ last' = [op |-> "jwtAuthGuard", req |-> req, resp |-> JwtAuthGuard_canActivate(req)]
    /\ UNCHANGED <<store, held, now, reqs>>

\* a request to an endpoint behind @UseGuards(RolesGuard)
RolesRequest(req, metadata) ==
    /\ last' = [op |-> "rolesGuard", req |-> req, metadata |-> metadata,
                resp |-> RolesGuard_canActivate(req, metadata)]
    /\ UNCHANGED <<store, held, now, reqs>>

\* time passes by step hours
Tick(step) ==
    /\ now + step <= MaxTime
    /\ now' = now + step
    /\ last' = [op |-> "tick"]
    /\ UNCHANGED <<store, held, reqs>>

\* the registration, user creation, login, role-assignment and ban endpoints
\* over the stores, with the bodies a client can send; nothing serialises the
\* handlers, so the awaits of up to MaxRequests requests interleave
Next ==
    \/ \E v \in RoleValues : CreateRole(v)
    \/ \E i \in Conns :
          \E userDto \in Bodies(ClientEmail, ClientPassword)
                            \cup {CreateUserDto(e, ClientPassword) : e \in Emails} :
              RegLookup(i, userDto)
    \/ \E i \in Conns : RegHash(i, "s1")
    \/ \E i \in Conns : RegCreate(i)
    \/ \E i \in Conns : \E userDto \in Bodies(ClientEmail, ClientPassword) :
          UsersCreate(i, userDto)
    \/ \E i \in Conns : CreateUserRole(i)
    \/ \E i \in Conns : CreateUserSet(i)
    \/ \E e \in Emails, p \in Passwords : Login(e, p)
    \/ \E i \in Conns, id \in {1, MaxUsers + 1}, v \in {"ADMIN", "MANAGER"} :
          AddRoleFind(i, id, v)
    \/ \E i \in Conns : AddRoleRole(i)
    \/ \E i \in Conns : AddRoleAdd(i)
    \/ \E i \in Conns, id \in {1, MaxUsers + 1} : BanFind(i, id, "spam")
    \/ \E i \in Conns : BanSave(i)

Spec == Init /\ [][Next]_vars

\* the store with the role USER created ahead of the first request
GuardInit ==
    /\ users = {}
    /\ nextUserId = 1
    /\ roles = {Role(1, "USER")}
    /\ nextRoleId = 2
    /\ userRoles = {}
    /\ held = {}
    /\ now = 0
    /\ last = [op |-> "start"]
    /\ reqs = [i \in Conns |-> Idle]

\* one client of the guarded endpoints: it registers or logs in, keeps a token,
\* and presents it (or something else) while time passes and the stores change
\* under the interleaved handlers
GuardNext ==
    \/ CreateRole("ADMIN")
    \/ \E i \in Conns : RegLookup(i, CreateUserDto(ClientEmail, ClientPassword))
    \/ \E i \in Conns : RegHash(i, "s1")
    \/ \E i \in Conns : RegCreate(i)
    \/ \E i \in Conns : UsersCreate(i, CreateUserDto(ClientEmail, ClientPassword))
    \/ \E i \in Conns : CreateUserRole(i)
    \/ \E i \in Conns : CreateUserSet(i)
    \/ Login(ClientEmail, ClientPassword)
    \/ \E i \in Conns : AddRoleFind(i, 1, "ADMIN")
    \/ \E i \in Conns : AddRoleRole(i)
    \/ \E i \in Conns : AddRoleAdd(i)
    \/ \E i \in Conns : BanFind(i, 1, "spam")
    \/ \E i \in Conns : BanSave(i)
    \/ Hold
    \/ Tick(ExpiresIn)
    \/ \E req \in Requests : AuthRequest(req)
    \/ \E req \in Requests, m \in Metadata : RolesRequest(req, m)

GuardSpec == GuardInit /\ [][GuardNext]_vars

\* the client's token as time passes in steps shorter than its lifetime: the
\* same handlers, and the guards asked about the token the client holds
TimeNext ==
    \/ CreateRole("ADMIN")
    \/ \E i \in Conns : RegLookup(i, CreateUserDto(ClientEmail, ClientPassword))
    \/ \E i \in Conns : RegHash(i, "s1")
    \/ \E i \in Conns : RegCreate(i)
    \/ \E i \in Conns : UsersCreate(i, CreateUserDto(ClientEmail, ClientPassword))
    \/ \E i \in Conns : CreateUserRole(i)
    \/ \E i \in Conns : CreateUserSet(i)
    \/ Login(ClientEmail, ClientPassword)
    \/ \E i \in Conns : AddRoleFind(i, 1, "ADMIN")
    \/ \E i \in Conns : AddRoleRole(i)
    \/ \E i \in Conns : AddRoleAdd(i)
    \/ \E i \in Conns : BanFind(i, 1, "spam")
    \/ \E i \in Conns : BanSave(i)
    \/ Hold
    \/ Tick(TickStep)
    \/ \E t \in held : AuthRequest(Request({<<Txt("Bearer"), Sp, Jwt(t)>>}))
    \/ \E t \in held :
          RolesRequest(Request({<<Txt("Bearer"), Sp, Jwt(t)>>}), Roles(<<"ADMIN">>))

TimeSpec == GuardInit /\ [][TimeNext]_vars

\* the requests about the client's email and the first user id, with every
\* salt and every ban reason
ConcNext ==
    \/ \E v \in RoleValues : CreateRole(v)
    \/ \E i \in Conns : RegLookup(i, CreateUserDto(ClientEmail, ClientPassword))
    \/ \E i \in Conns, s \in Salts : RegHash(i, s)
    \/ \E i \in Conns : RegCreate(i)
    \/ \E i \in Conns : UsersCreate(i, CreateUserDto(ClientEmail, ClientPassword))
    \/ \E i \in Conns : CreateUserRole(i)
    \/ \E i \in Conns : CreateUserSet(i)
    \/ Login(ClientEmail, ClientPassword)
    \/ \E i \in Conns, v \in RoleValues : AddRoleFind(i, 1, v)
    \/ \E i \in Conns : AddRoleRole(i)
    \/ \E i \in Conns : AddRoleAdd(i)
    \/ \E i \in Conns, b \in BanReasons : BanFind(i, 1, b)
    \/ \E i \in Conns : BanSave(i)

ConcSpec == Init /\ [][ConcNext]_vars

(* ------------------------------ properties ---------------------------- *)
\* the claims a token decodes to, at the current time
Decode(t) == verify(<<Jwt(t)>>)
EmailTaken(email) == \E u \in users : u.email = email
DuplicateUser == HttpException("User with such email already exists", 400)
\* the row was written by a registration: its password is the hash of one
HashedRow(u) == \E password \in Passwords : bcryptCompare(password, u.password)
\* a body with the two properties CreateUserDto declares and no other
Contract(userDto) == DOMAIN userDto = {"email", "password"}
\* the user with this id is stored and the request that created it has finished
Registered(id) ==
    /\ \E u \in users : u.id = id
    /\ \A i \in Conns :
          (reqs[i].pc \in {"role", "set"} /\ reqs[i].op \in {"registration", "createUser"})
              => \A u \in reqs[i].user : u.id # id

\* C1: a registration with an email that a stored user already has fails with
\* DuplicateUser (status 400) and leaves the user rows, the id counter and the
\* user-role links as they were, whatever happened before: no such request
\* gets past the lookup, and the request answered at the lookup is answered so.
C1_DuplicateRegistration ==
    [][/\ \A i \in Conns :
            (/\ reqs[i].pc = "idle" /\ reqs'[i].pc # "idle"
             /\ reqs'[i].op = "registration") => ~EmailTaken(reqs'[i].req.email)
       /\ (last'.op = "registration" /\ reqs' = reqs)
            => /\ EmailTaken(last'.req.email)
               /\ last'.resp = DuplicateUser
               /\ last'.resp.status = 400 /\ last'.resp.token = {}
               /\ users' = users /\ nextUserId' = nextUserId /\ userRoles' = userRoles]_vars

C1_Witness ==
    /\ last.op = "registration" /\ last.resp = DuplicateUser
    /\ \E u \in users : u.email = last.req.email /\ u.banned /\ RolesOf(u.id) # {}

\* C2: a registration {email, password} that found its email unused succeeds
\* (the role USER being there when it looks it up), and the login that follows
\* it with the same credentials succeeds with a token that decodes to the same
\* id as the registration token.
C2_RegisterThenLogin ==
    [][/\ \A i \in Conns :
            (/\ reqs[i].pc # "idle" /\ reqs[i].op = "registration"
             /\ Contract(reqs[i].req) /\ reqs'[i].pc = "idle")
                => (last'.resp.ok \/ (reqs[i].pc = "role" /\ getRoleByValue("USER") = {}))
       /\ (/\ last.op = "registration" /\ last.resp.ok
           /\ last'.op = "login" /\ last'.req.email = last.req.email
           /\ last'.req.password = last.req.password)
            => /\ last'.resp.ok
               /\ \A a \in last.resp.token, b \in last'.resp.token :
                      /\ Decode(a) # {} /\ Decode(b) # {}
                      /\ \A x \in Decode(a), y \in Decode(b) : x.id = y.id]_vars

\* C3: in every store state a login with a stored email and a wrong password
\* answers exactly what a login with an email no user has answers
\* (InvalidCredentials, same status and message, no token), and a login
\* leaves the stores unchanged.
C3_LoginNonEnumerable ==
    /\ [](\A e1 \in Emails, e2 \in Emails, p1 \in Passwords, p2 \in Passwords :
            LET wrong == login([email |-> e1, password |-> p1])
                absent == login([email |-> e2, password |-> p2])
            IN  (EmailTaken(e1) /\ ~wrong.ok /\ ~EmailTaken(e2))
                    => wrong = absent /\ wrong = InvalidCredentials)
    /\ [][last'.op = "login" => UNCHANGED store]_vars

C3_Witness ==
    /\ last.op = "login" /\ last.resp = InvalidCredentials
    /\ \E u \in users : u.email = last.req.email /\ HashedRow(u)
    /\ \E e \in Emails : ~EmailTaken(e)

\* shapes of a request, read off the raw header
BearerOf(t) == Request({<<Txt("Bearer"), Sp, Jwt(t)>>})
NoHeader(req) == req.authorization = {}
WrongScheme(req) == \E h \in req.authorization : h[1] # Txt("Bearer")
NoTokenString(req) ==
    \E h \in req.authorization : h = <<Txt("Bearer")>> \/ h = <<Txt("Bearer"), Sp>>
FailsVerification(req) ==
    \E h \in req.authorization :
        /\ Len(h) = 3 /\ h[1] = Txt("Bearer") /\ h[2] = Sp
        /\ (h[3].k # "jwt" \/ h[3].t.sig # "SECRET" \/ now >= h[3].t.iat + 24)
Unauthenticated(req) ==
    NoHeader(req) \/ WrongScheme(req) \/ NoTokenString(req) \/ FailsVerification(req)
NotAuthed == [allowed |-> FALSE, status |-> 401, message |-> "User not authed", user |-> {}]

\* C4: the authentication guard rejects a request without Authorization header,
\* with a scheme other than Bearer, without a token string, or with a token
\* that fails verification (malformed, bad signature, expired); every one of
\* them gets the same 401 'User not authed' and no identity is attached.
C4_AuthGuardRejects ==
    /\ \A req \in Requests :
          Unauthenticated(req) => JwtAuthGuard_canActivate(req) = NotAuthed
    /\ (last.op = "jwtAuthGuard" /\ Unauthenticated(last.req)) => last.resp = NotAuthed

C4_Witness ==
    /\ last.op = "jwtAuthGuard" /\ last.resp = NotAuthed
    /\ \E t \in held : /\ last.req = Request({<<Txt("Basic"), Sp, Jwt(t)>>})
                         /\ JwtAuthGuard_canActivate(BearerOf(t)).allowed

\* C5: a token expires 24 hours after it was issued and verification accepts
\* it exactly while the time is strictly before the expiry (at issuance and at
\* every time between); the guard answers a request that presents it
\* accordingly; once verification has failed because the expiry passed it
\* fails after every further step, whatever the time has become, although the
\* signature is valid.
C5_TokenExpiry ==
    /\ [](\A t \in held :
            /\ t.exp = t.iat + 24
            /\ t.sig = "SECRET"
            /\ (verify(<<Jwt(t)>>) # {}) <=> (now < t.exp)
            /\ (now >= t.exp) => /\ verifyError(<<Jwt(t)>>) = {"jwt expired"}
                                 /\ JwtAuthGuard_canActivate(BearerOf(t)) = NotAuthed
            /\ (last.op = "jwtAuthGuard" /\ last.req = BearerOf(t))
                  => (last.resp.allowed <=> now < t.exp))
    /\ [][\A t \in held :
            (verify(<<Jwt(t)>>) = {})
                => /\ now' >= t.exp
                   /\ (verify(<<Jwt(t)>>) = {})'
                   /\ (JwtAuthGuard_canActivate(BearerOf(t)) = NotAuthed)']_vars

\* the token is presented after its expiry has passed, not at the instant of it
C5_Witness ==
    /\ last.op = "jwtAuthGuard" /\ last.resp = NotAuthed
    /\ \E t \in held : last.req = BearerOf(t) /\ t.sig = "SECRET" /\ now > t.exp

\* the role values among a token's claims ({} when it has no roles list)
RoleClaims(t) ==
    IF "roles" \in DOMAIN t.payload THEN {r.value : r \in t.payload.roles} ELSE {}
Required(m) == UNION {{l[i] : i \in 1..Len(l)} : l \in m}
Live(t) == t.sig = "SECRET" /\ now < t.iat + 24

\* C6: on an endpoint that requires a non-empty set of roles, a request with a
\* valid token passes the role guard exactly when one of the token's role
\* values is a required one (OR, not AND); a refusal is a 403.
C6_RoleGuardAnyOf ==
    /\ \A t \in held, m \in Metadata :
          (Live(t) /\ Required(m) # {}) =>
              LET res == RolesGuard_canActivate(BearerOf(t), m)
              IN  /\ res.allowed <=> (RoleClaims(t) \cap Required(m) # {})
                  /\ ~res.allowed => res.status = 403
    /\ \A t \in held :
          (/\ last.op = "rolesGuard" /\ Required(last.metadata) # {}
           /\ Live(t) /\ last.req = BearerOf(t))
            => /\ last.resp.allowed <=> (RoleClaims(t) \cap Required(last.metadata) # {})
               /\ ~last.resp.allowed => last.resp.status = 403

C6_Witness ==
    /\ last.op = "rolesGuard" /\ last.metadata = Roles(<<"ADMIN">>)
    /\ last.resp.allowed
    /\ \E t \in held : last.req = BearerOf(t) /\ RoleClaims(t) = {"USER", "ADMIN"}

\* C7: when the endpoint declares no required roles (no decorator, or a
\* decorator with an empty list) the role guard allows the request whatever
\* its Authorization header is.
C7_NoRequiredRolesAllows ==
    (last.op = "rolesGuard" /\ Required(last.metadata) = {}) => last.resp.allowed

\* C10: a token that is not expired and belongs to a banned user is still
\* accepted by the authentication guard, and the role guard still decides on
\* the role claims the token was issued with.
C10_BanKeepsTokens ==
    \A t \in held :
        (Live(t) /\ \E u \in users : u.id = t.payload.id /\ u.banned) =>
            /\ JwtAuthGuard_canActivate(BearerOf(t)).allowed
            /\ \A c \in JwtAuthGuard_canActivate(BearerOf(t)).user :
                   c.id = t.payload.id /\ c.email = t.payload.email
            /\ RolesGuard_canActivate(BearerOf(t), {}).allowed
            /\ \A m \in Metadata : Required(m) # {} =>
                   (RolesGuard_canActivate(BearerOf(t), m).allowed
                        <=> (RoleClaims(t) \cap Required(m) # {}))

\* the ban has just been applied to the user whose token the client holds
C10_Witness ==
    /\ last.op = "ban" /\ last.resp.ok
    /\ \E t \in held :
          /\ t.payload.id = last.req.userId /\ Live(t)
          /\ RoleClaims(t) = {"USER", "ADMIN"}
          /\ JwtAuthGuard_canActivate(BearerOf(t)).allowed
          /\ RolesGuard_canActivate(BearerOf(t), Roles(<<"ADMIN">>)).allowed

\* C8: the token of a successful registration decodes to claims with id, email
\* and roles, where email is the submitted one and the role values are ["USER"].
C8_RegistrationTokenClaims ==
    (last.op = "registration" /\ last.resp.ok) =>
        /\ last.resp.token # {}
        /\ \A t \in last.resp.token :
              /\ Decode(t) # {}
              /\ \A c \in Decode(t) :
                    /\ {"id", "email", "roles"} \subseteq DOMAIN c
                    /\ c.email = last.req.email
                    /\ RoleClaims(t) = {"USER"}

\* C9: a login token carries exactly the roles linked to the user at that
\* login; a successful role assignment links the role and keeps the links
\* there were; no role is removed, and no link of a registered user (one whose
\* creating request has finished) is removed by any step of any request, nor
\* does such a user stop being registered: so once a registered user (USER)
\* was given ADMIN, every later login token has both.
C9_LoginTokenRoles ==
    /\ []((last.op = "login" /\ last.resp.ok) =>
            /\ last.resp.token # {}
            /\ \A t \in last.resp.token : \A c \in Decode(t) :
                  /\ "roles" \in DOMAIN c
                  /\ c.roles = RolesOf(c.id)
                  /\ c.email = last.req.email)
    /\ [][\A i \in Conns :
            (reqs[i].pc = "add" /\ reqs'[i].pc = "idle")
                => /\ last'.op = "addRole" /\ last'.resp.ok
                   /\ reqs[i].user # {} /\ reqs[i].role # {}
                   /\ userRoles' = userRoles \cup
                          {<<u.id, r.id>> : u \in reqs[i].user, r \in reqs[i].role}]_vars
    /\ [][/\ roles \subseteq roles'
          /\ \A id \in UserIds :
                Registered(id) => /\ Registered(id)'
                                  /\ \A l \in userRoles : l[1] = id => l \in userRoles']_vars

C9_Witness ==
    /\ last.op = "login" /\ last.resp.ok
    /\ \E t \in last.resp.token : RoleClaims(t) = {"USER", "ADMIN"}

\* C11: in every reachable state of the user store a user that a registration
\* wrote (its password is a hash) has a banReason only if it is banned; a user
\* just registered is not banned and has no banReason, and a successful ban
\* leaves the user banned with the submitted reason.
C11_BanReasonOnlyWhenBanned ==
    /\ \A u \in users : (u.banReason # {} /\ HashedRow(u)) => u.banned
    /\ (last.op = "registration" /\ last.resp.status # 400) =>
          \A u \in last.user : ~u.banned /\ u.banReason = {}
    /\ (last.op = "ban" /\ last.resp.ok) =>
          \E u \in users : /\ u.id = last.req.userId
                            /\ u.banned /\ u.banReason = {last.req.banReason}

NotFound == HttpException("Users or role not found", 404)

\* C12: a role assignment {userId, value} fails with NotFound (404) when no
\* user has the id (at its lookup of the user) or no role has the value (at its
\* lookup of the role), and then it has left users, roles and user-role links
\* as they were; when both exist it succeeds, the link (userId, role id) is
\* present afterwards and the links there were are kept.
C12_AddRole ==
    [][\A i \in Conns :
         /\ (/\ reqs[i].pc = "idle" /\ reqs'[i].pc # "idle" /\ reqs'[i].op = "addRole")
              => /\ reqs'[i].user = {} <=> \A u \in users : u.id # reqs'[i].req.userId
                 /\ UNCHANGED store
         /\ (/\ reqs[i].pc = "role" /\ reqs[i].op = "addRole" /\ reqs'[i] # reqs[i])
              => LET dto == reqs[i].req
                     missing == reqs[i].user = {} \/ (\A r \in roles : r.value # dto.value)
                 IN  /\ UNCHANGED store
                     /\ missing => /\ reqs'[i].pc = "idle" /\ last'.op = "addRole"
                                    /\ last'.req = dto
                                    /\ last'.resp = NotFound /\ last'.resp.status = 404
                     /\ ~missing => reqs'[i].pc = "add"
         /\ (reqs[i].pc = "add" /\ reqs'[i] # reqs[i])
              => LET dto == reqs[i].req
                 IN  /\ last'.op = "addRole" /\ last'.req = dto /\ last'.resp.ok
                     /\ \E r \in roles : r.value = dto.value
                     /\ \A r \in roles :
                           r.value = dto.value => <<dto.userId, r.id>> \in userRoles'
                     /\ userRoles \subseteq userRoles'
                     /\ UNCHANGED <<users, nextUserId, roles, nextRoleId>>]_vars

C12_Witness ==
    /\ last.op = "addRole" /\ last.resp = NotFound
    /\ last.req.value = "ADMIN"
    /\ \A u \in users : u.id # last.req.userId
    /\ \E r \in roles : r.value = "ADMIN"
    /\ userRoles # {}

\* C14: while the role USER is absent no registration succeeds: a registration
\* of an unused email writes the user row with the hashed password, then its
\* lookup of the role finds none and it answers a 500 without a token in that
\* step; the row stays in the store and the registration has linked no role
\* to it (neither its INSERT nor its failing step writes a link); a
\* registration succeeds only from its $set with the role it found, and one
\* answered at its lookup of the email fails with DuplicateUser.
C14_MissingSeedRole ==
    [][/\ \A i \in Conns :
            /\ (/\ reqs[i].pc = "create" /\ reqs'[i] # reqs[i] /\ reqs'[i].pc # "idle")
                 => \E u \in users' :
                       /\ users' = users \cup {u} /\ u \notin users
                       /\ reqs'[i].pc = "role" /\ reqs'[i].user = {u}
                       /\ u.email = reqs[i].req.email
                       /\ \E salt \in Salts :
                              u.password = bcryptHash(reqs[i].req.password, 5, salt)
                       /\ userRoles' = userRoles
            /\ (/\ reqs[i].pc = "role" /\ reqs[i].op = "registration"
                /\ reqs'[i] # reqs[i] /\ \A r \in roles : r.value # "USER")
                 => /\ reqs'[i].pc = "idle"
                    /\ last'.op = "registration" /\ last'.req = reqs[i].req
                    /\ ~last'.resp.ok
                    /\ last'.resp.status = 500 /\ last'.resp.token = {}
                    /\ reqs[i].user # {}
                    /\ \A u \in reqs[i].user : \E x \in users' :
                           /\ x.id = u.id /\ x.email = u.email /\ x.password = u.password
                    /\ users' = users /\ userRoles' = userRoles
            /\ (reqs[i].pc = "set" /\ reqs[i].op = "registration" /\ reqs'[i] # reqs[i])
                 => /\ reqs[i].role # {} /\ \E r \in roles : r.value = "USER"
                    /\ last'.op = "registration" /\ last'.resp.ok
       /\ (last'.op = "registration" /\ last'.resp.ok /\ last' # last)
            => \E i \in Conns : reqs[i].pc = "set" /\ reqs'[i].pc = "idle"
       /\ \A u \in users : \E x \in users' :
             x.id = u.id /\ x.email = u.email /\ x.password = u.password
       /\ (last'.op = "registration" /\ reqs' = reqs) => last'.resp = DuplicateUser]_vars

\* the orphaned row is there and the email can no longer be registered
C14_Witness ==
    /\ last.op = "registration" /\ last.resp = DuplicateUser
    /\ \E r \in roles : r.value = "USER"
    /\ \E u \in users : /\ u.email = last.req.email /\ RolesOf(u.id) = {}
                          /\ bcryptCompare(last.req.password, u.password)
    /\ \A i \in Conns : reqs[i].pc = "idle"

\* a valid token whose claims have no roles list
NoRolesList(req) ==
    \E t \in held : req = BearerOf(t) /\ Live(t) /\ "roles" \notin DOMAIN t.payload
\* a valid token whose role values are none of the required ones
NoRequiredRole(req, m) ==
    \E t \in held : /\ req = BearerOf(t) /\ Live(t) /\ "roles" \in DOMAIN t.payload
                     /\ RoleClaims(t) \cap Required(m) = {}
Forbidden(res) == ~res.allowed /\ res.status = 403

\* C15: on an endpoint that declares required roles every failure inside the
\* role guard is answered with the 403 Forbidden status, never with the 401
\* 'not authenticated' one: a missing header, a scheme other than Bearer, a
\* missing token string, a token that fails verification and a valid token
\* without a roles list are all refused with the same status as a valid token
\* whose roles are none of the required ones.
C15_RoleGuardForbidden ==
    /\ \A req \in Requests, m \in Metadata :
          (m # {} /\ (Unauthenticated(req) \/ NoRolesList(req) \/ NoRequiredRole(req, m)))
              => Forbidden(RolesGuard_canActivate(req, m))
    /\ (/\ last.op = "rolesGuard" /\ last.metadata # {}
        /\ (\/ Unauthenticated(last.req) \/ NoRolesList(last.req)
            \/ NoRequiredRole(last.req, last.metadata)))
         => Forbidden(last.resp)

C15_Witness ==
    /\ last.op = "rolesGuard" /\ last.metadata = Roles(<<"ADMIN">>)
    /\ NoRolesList(last.req)
    /\ Forbidden(last.resp)
    /\ JwtAuthGuard_canActivate(last.req).allowed

\* C13: of the concurrent registrations that submit the same unused email at
\* most one row with that email ever exists, a registration gets a token only
\* if it created the row, and every registration that wrote nothing while
\* another one created the row (the stored password is then a hash) has
\* failed with DuplicateUser, not with another error.
C13_ConcurrentRegistration ==
    /\ \A e \in Emails : Cardinality({u \in users : u.email = e}) <= 1
    /\ (last.op = "registration" /\ last.resp.ok)
          => last.user # {} /\ last.user \subseteq users
    /\ (/\ last.op = "registration" /\ last.user = {}
        /\ \E u \in users : /\ u.email = last.req.email
                              /\ bcryptCompare(last.req.password, u.password))
          => last.resp = DuplicateUser

====
